---- MODULE Spec2Model ----
(***************************************************************************)
(* Model of astro-auth: the configuration merge (defineConfig), the        *)
(* boolean parsing of environment strings (parseBool), the Vite virtual    *)
(* module plugin (virtualConfigModule) and the request handler shim        *)
(* (AstroAuth).                                                            *)
(*                                                                         *)
(* JavaScript values are tagged records; a string is the sequence of its   *)
(* characters, each character a one-character TLA+ string.  An object is a *)
(* function from its own keys to values, so that a missing key and a key   *)
(* holding undefined are different objects that read the same.            *)
(***************************************************************************)
EXTENDS Integers, Sequences, FiniteSets, TLC

\* ---------------------------------------------------------------- bounds
MaxObjects == 3
MaxLen == 2
MaxRequests == 2
MaxLoads == 2

\* ------------------------------------------------------------ JS values
Undefined == [type |-> "undefined"]
Str(s) == [type |-> "string", chars |-> s]
Bool(b) == [type |-> "boolean", bool |-> b]
IsString(v) == v.type = "string"

\* obj.key: a key that is not an own property reads as undefined
Get(obj, key) == IF key \in DOMAIN obj THEN obj[key] ELSE Undefined

\* a ?? b
Nullish(a, b) == IF a = Undefined THEN b ELSE a

\* !v for the values that occur: undefined, a string, a boolean
Falsy(v) ==
  \/ v = Undefined
  \/ v.type = "string" /\ v.chars = <<>>
  \/ v.type = "boolean" /\ ~v.bool

\* a || b
LogicalOr(a, b) == IF Falsy(a) THEN b ELSE a

\* ------------------------------------------------------------- strings
NUL == "NUL"
DefaultPrefix == <<"/", "a", "p", "i", "/", "a", "u", "t", "h">>
S_custom_auth == <<"/", "c", "u", "s", "t", "o", "m", "-", "a", "u", "t", "h">>
S_other == <<"/", "o", "t", "h", "e", "r">>
S_my_secret == <<"m", "y", "-", "s", "e", "c", "r", "e", "t">>
S_env_secret == <<"e", "n", "v", "-", "s", "e", "c", "r", "e", "t">>
S_meta_secret == <<"m", "e", "t", "a", "-", "s", "e", "c", "r", "e", "t">>
S_true == <<"t", "r", "u", "e">>
S_yes == <<"y", "e", "s">>
S_on == <<"o", "n">>
S_1 == <<"1">>
S_0 == <<"0">>
S_false == <<"f", "a", "l", "s", "e">>
S_vercel == <<"v", "e", "r", "c", "e", "l">>
S_production == <<"p", "r", "o", "d", "u", "c", "t", "i", "o", "n">>
S_development == <<"d", "e", "v", "e", "l", "o", "p", "m", "e", "n", "t">>
S_some_other == <<"s", "o", "m", "e", "-", "o", "t", "h", "e", "r", "-", "m", "o", "d", "u", "l", "e">>
DefaultConfigFile == <<".", "/", "a", "u", "t", "h", ".", "c", "o", "n", "f", "i", "g">>
S_custom_file == <<".", "/", "c", "u", "s", "t", "o", "m", "/", "a", "u", "t", "h", ".", "t", "s">>
R_posix == <<"/", "s", "r", "c", "/", "a", "u", "t", "h", ".", "c", "o", "n", "f", "i", "g", ".", "t", "s">>
R_win == <<"C", ":", "\\", "a", "p", "p", "\\", "a", "u", "t", "h", ".", "t", "s">>
R_quote == <<"/", "a", "\"", "b", ".", "t", "s">>

\* --------------------------------------------------------------- state
VARIABLES
  importMetaEnv,  \* import.meta.env: Undefined, or the object Vite provides
  envOverride,    \* the envOverride argument the callers pass to defineConfig
  heap,           \* the config objects, by reference (index)
  arg,            \* reference passed to the last defineConfig call (0: none)
  ret,            \* reference returned by the last defineConfig call (0: none)
  value,          \* argument of parseBool
  result,         \* <<>> before parseBool returns, then <<its return value>>
  plugin,         \* the closure of the plugin virtualConfigModule returned
  resolveIdCall,  \* last resolveId call: its id and what it returned
  loadState,      \* the load call: "idle", "awaiting", "returned", "threw"
  loadId,         \* the id the load call was given
  resolved,       \* what this.resolve(configFile) gave the load call
  loadRet,        \* what load returned, or the error it threw
  resolveCalls,   \* the specifiers passed to this.resolve, in order
  handlers,       \* reference of the config the handlers closed over (0: none)
  request,        \* the last request a handler was given
  response,       \* what the handler returned for it
  authCalls       \* the calls made to the authentication library, in order

mergeVars == <<importMetaEnv, envOverride, heap, arg, ret>>
parseVars == <<value, result>>
pluginVars ==
  <<plugin, resolveIdCall, loadState, loadId, resolved, loadRet, resolveCalls>>
serverVars == <<handlers, request, response, authCalls>>
vars == <<mergeVars, parseVars, pluginVars, serverVars>>

\* ------------------------------------------------------------ parseBool
Lower == <<"a","b","c","d","e","f","g","h","i","j","k","l","m",
           "n","o","p","q","r","s","t","u","v","w","x","y","z">>
Upper == <<"A","B","C","D","E","F","G","H","I","J","K","L","M",
           "N","O","P","Q","R","S","T","U","V","W","X","Y","Z">>

\* The i flag (no u flag): both sides are compared after toUpperCase; a
\* non-ASCII character is never mapped onto an ASCII one.
Canonicalize(ch) ==
  IF \E i \in 1..26 : Lower[i] = ch
    THEN Upper[CHOOSE i \in 1..26 : Lower[i] = ch]
    ELSE ch

\* the alternatives of (1|true|yes|on)
Alternatives == {S_1, S_true, S_yes, S_on}

\* alt matches the characters of s that start at pos
MatchesAt(s, pos, alt) ==
  /\ pos + Len(alt) - 1 <= Len(s)
  /\ \A i \in 1..Len(alt) :
       Canonicalize(s[pos + i - 1]) = Canonicalize(alt[i])

\* /(1|true|yes|on)/i.test(s): the pattern without its anchors
RegexTestUnanchored(s) ==
  \E pos \in 1..(Len(s) + 1) : \E alt \in Alternatives : MatchesAt(s, pos, alt)

\* /^(1|true|yes|on)$/i.test(s): ^ pins the match to position 1 and $ (no m
\* flag) to the end of the input
RegexTest(s) ==
  \E alt \in Alternatives : MatchesAt(s, 1, alt) /\ Len(alt) = Len(s)

parseBool(v) ==
  IF Falsy(v) THEN FALSE ELSE RegexTest(v.chars)


\* ----------------------------------------------------------- getEnvVars
EnvKeys == {"AUTH_SECRET", "AUTH_TRUST_HOST", "VERCEL", "CF_PAGES", "NODE_ENV"}

\* Reads importMetaEnv (import.meta.env) when no override is passed.
getEnvVars(override) ==
  IF override # Undefined THEN override
  ELSE IF importMetaEnv # Undefined
    THEN [k \in EnvKeys |-> Get(importMetaEnv, k)]
    ELSE [k \in EnvKeys |-> Undefined]

\* --------------------------------------------------------- defineConfig
prefix_or(config) == LogicalOr(Get(config, "prefix"), Str(DefaultPrefix))

\* const prefix = config.prefix ?? '/api/auth'
prefix(config) == Nullish(Get(config, "prefix"), Str(DefaultPrefix))

secret_envFirst(config, AUTH_SECRET) == Nullish(AUTH_SECRET, Get(config, "secret"))

\* const secret = config.secret ?? AUTH_SECRET
secret(config, AUTH_SECRET) == Nullish(Get(config, "secret"), AUTH_SECRET)

trustHost_or(config, env) ==
  LogicalOr(Get(config, "trustHost"),
            Bool(\/ parseBool(Get(env, "AUTH_TRUST_HOST"))
                 \/ parseBool(Get(env, "VERCEL"))
                 \/ parseBool(Get(env, "CF_PAGES"))
                 \/ Get(env, "NODE_ENV") # Str(S_production)))

\* const trustHost = config.trustHost ?? (parseBool(AUTH_TRUST_HOST) ||
\*   parseBool(VERCEL) || parseBool(CF_PAGES) || NODE_ENV !== 'production')
trustHost(config, env) ==
  Nullish(Get(config, "trustHost"),
          Bool(\/ parseBool(Get(env, "AUTH_TRUST_HOST"))
               \/ parseBool(Get(env, "VERCEL"))
               \/ parseBool(Get(env, "CF_PAGES"))
               \/ Get(env, "NODE_ENV") # Str(S_production)))

basePath_keep(config, p) == Nullish(Get(config, "basePath"), p)

\* the basePath property of the returned literal: basePath: prefix
basePath(config, p) == p

\* { ...config, prefix, basePath: prefix, secret, trustHost }
defineConfig(config, override) ==
  LET env == getEnvVars(override)
      p == prefix(config)
      s == secret(config, Get(env, "AUTH_SECRET"))
      t == trustHost(config, env)
  IN [k \in DOMAIN config \cup {"prefix", "basePath", "secret", "trustHost"} |->
        CASE k = "prefix" -> p
          [] k = "basePath" -> basePath(config, p)
          [] k = "secret" -> s
          [] k = "trustHost" -> t
          [] OTHER -> config[k]]

\* the caller's objects and environments
Absent == [type |-> "absent"]
Field(key, v) == IF v = Absent THEN <<>> ELSE key :> v
Providers == [type |-> "array", items |-> <<>>]

Configs ==
  { ("providers" :> Providers) @@ Field("secret", s) @@ Field("prefix", p)
      @@ Field("basePath", b) @@ Field("trustHost", t) :
    s \in {Absent, Str(S_my_secret), Str(<<>>)},
    p \in {Absent, Str(S_custom_auth), Str(<<>>)},
    b \in {Absent, Str(S_custom_auth), Str(S_other)},
    t \in {Absent, Bool(TRUE), Bool(FALSE)} }

Envs ==
  [AUTH_SECRET : {Undefined, Str(S_env_secret)},
   AUTH_TRUST_HOST : {Undefined, Str(S_true), Str(S_0)},
   VERCEL : {Undefined, Str(S_1), Str(S_vercel)},
   CF_PAGES : {Undefined, Str(S_1)},
   NODE_ENV : {Undefined, Str(S_production), Str(S_development)}]

\* what import.meta.env holds when Vite provides it
MetaEnv ==
  [AUTH_SECRET |-> Str(S_meta_secret), AUTH_TRUST_HOST |-> Undefined,
   VERCEL |-> Undefined, CF_PAGES |-> Undefined,
   NODE_ENV |-> Str(S_production)]

mergeIdle ==
  /\ importMetaEnv = Undefined
  /\ envOverride = Undefined
  /\ heap = <<>>
  /\ arg = 0
  /\ ret = 0

parseIdle == value = Undefined /\ result = <<>>

pluginIdle ==
  /\ plugin = Undefined
  /\ resolveIdCall = Undefined
  /\ loadState = "idle"
  /\ loadId = Undefined
  /\ resolved = Undefined
  /\ loadRet = Undefined
  /\ resolveCalls = <<>>

serverIdle ==
  /\ handlers = 0
  /\ request = Undefined
  /\ response = Undefined
  /\ authCalls = <<>>

Init ==
  /\ importMetaEnv \in {Undefined, MetaEnv}
  /\ envOverride \in Envs \cup {Undefined}
  /\ heap \in {<<c>> : c \in Configs}
  /\ arg = 0
  /\ ret = 0
  /\ parseIdle
  /\ pluginIdle
  /\ serverIdle

DefineConfigInPlace(ref) ==
  /\ heap' = [heap EXCEPT ![ref] = defineConfig(heap[ref], envOverride)]
  /\ arg' = ref
  /\ ret' = ref
  /\ UNCHANGED <<importMetaEnv, envOverride>>

\* a call defineConfig(heap[ref], envOverride): the returned literal is a new
\* object; nothing is written to the argument
DefineConfigCall(ref) ==
  /\ Len(heap) < MaxObjects
  /\ heap' = Append(heap, defineConfig(heap[ref], envOverride))
  /\ arg' = ref
  /\ ret' = Len(heap) + 1
  /\ UNCHANGED <<importMetaEnv, envOverride>>

DefineConfig(ref) ==
  /\ DefineConfigCall(ref)
  /\ UNCHANGED <<parseVars, pluginVars, serverVars>>

Next == \E ref \in DOMAIN heap : DefineConfig(ref)

Spec == Init /\ [][Next]_vars


\* ------------------------------------------------ the last defineConfig call
Called == ret # 0
CalledWithEnv == ret # 0 /\ envOverride # Undefined
cfgIn == heap[arg]
cfgOut == heap[ret]
Supplied(obj, key) == Get(obj, key) # Undefined

C4_Secret ==
  CalledWithEnv =>
    /\ "secret" \in DOMAIN cfgOut
    /\ Supplied(cfgIn, "secret") => cfgOut.secret = cfgIn.secret
    /\ (~Supplied(cfgIn, "secret") /\ envOverride.AUTH_SECRET # Undefined)
         => cfgOut.secret = envOverride.AUTH_SECRET
    /\ (~Supplied(cfgIn, "secret") /\ envOverride.AUTH_SECRET = Undefined)
         => cfgOut.secret = Undefined

\* both the config and the environment carried a secret; the config's won
C4_Witness ==
  /\ CalledWithEnv
  /\ arg = 1
  /\ Get(cfgIn, "secret") = Str(S_my_secret)
  /\ envOverride.AUTH_SECRET = Str(S_env_secret)
  /\ cfgOut.secret = Str(S_my_secret)

\* C6: the merged prefix is always present: config.prefix when the config
\* supplies one, '/api/auth' when it does not, whatever the environment.
C6_Prefix ==
  Called =>
    /\ "prefix" \in DOMAIN cfgOut
    /\ IsString(cfgOut.prefix)
    /\ Supplied(cfgIn, "prefix") => cfgOut.prefix = cfgIn.prefix
    /\ ~Supplied(cfgIn, "prefix") => cfgOut.prefix = Str(DefaultPrefix)

\* a config without a prefix was merged under an environment that sets
\* every variable, and got the default
C6_Witness ==
  /\ CalledWithEnv
  /\ arg = 1
  /\ "prefix" \notin DOMAIN cfgIn
  /\ \A k \in EnvKeys : envOverride[k] # Undefined
  /\ cfgOut.prefix = Str(DefaultPrefix)

\* C9: normalization is idempotent and leaves its input alone: a call returns
\* a reference that was not on the heap before, changes no object that was,
\* and, applied to the result of the previous call under the same
\* environment, returns an object equal to its argument field for field.
C9_Idempotent ==
  [][ <<heap, arg, ret>>' # <<heap, arg, ret>> =>
        /\ ret' \in DOMAIN heap' \ DOMAIN heap
        /\ \A ref \in DOMAIN heap : heap'[ref] = heap[ref]
        /\ (ret # 0 /\ arg' = ret) =>
             /\ DOMAIN heap'[ret'] = DOMAIN heap[ret]
             /\ heap'[ret'] = heap[ret] ]_vars

\* a config that the first call changed was normalized a second time
C9_Witness ==
  /\ Len(heap) = 3
  /\ arg = 2
  /\ ret = 3
  /\ heap[2] # heap[1]
  /\ heap[3] = heap[2]
  /\ envOverride # Undefined

\* C10 (as stated): a basePath the caller supplied is what the merge returns
C10_BasePathKept ==
  Called => (Supplied(cfgIn, "basePath") => cfgOut.basePath = cfgIn.basePath)


\* ------------------------------------------------- parseBool on its own
SmallAlphabet == {"1", "0", "o", "n", "O", "N", " "}
SmallStrings == UNION {[1..k -> SmallAlphabet] : k \in 0..MaxLen}

\* every upper/lower spelling of a token
Spellings(tok) ==
  { [i \in 1..Len(tok) |-> IF up[i] THEN Canonicalize(tok[i]) ELSE tok[i]] :
      up \in [1..Len(tok) -> BOOLEAN] }

PadChars == {" ", "\n", "x", "1"}
Padded ==
  UNION { {<<c>> \o tok, tok \o <<c>>} : c \in PadChars, tok \in Alternatives }

OtherStrings ==
  {S_false, S_0, <<"n", "o">>, <<"o", "f", "f">>, <<"t", "r", "u">>,
   <<"T", "R", "U", "E", " ">>, <<"y">>, <<"2">>}

ParseInputs ==
  {Undefined} \cup
  { Str(s) : s \in SmallStrings \cup Padded \cup OtherStrings
                   \cup UNION {Spellings(tok) : tok \in Alternatives} }

InitParseBool ==
  /\ value \in ParseInputs
  /\ result = <<>>
  /\ mergeIdle
  /\ pluginIdle
  /\ serverIdle

\* the call parseBool(value)
ParseBool ==
  /\ result = <<>>
  /\ result' = <<parseBool(value)>>
  /\ UNCHANGED <<value, mergeVars, pluginVars, serverVars>>

NextParseBool == ParseBool

SpecParseBool == InitParseBool /\ [][NextParseBool]_vars

\* String.prototype.toLowerCase on the letters that occur, and the four
\* tokens, as the property reads them
toLowerCaseChar(ch) ==
  IF \E i \in 1..26 : Upper[i] = ch
    THEN Lower[CHOOSE i \in 1..26 : Upper[i] = ch]
    ELSE ch
toLowerCase(s) == [i \in 1..Len(s) |-> toLowerCaseChar(s[i])]
Tokens == {<<"1">>, <<"t", "r", "u", "e">>, <<"y", "e", "s">>, <<"o", "n">>}

\* C5: parseBool(value) is true exactly when value is a string that, lower
\* cased and taken whole, is one of 1, true, yes, on; so it is false for '0',
\* 'false', '', undefined, and for a token with anything before or after it.
C5_ParseBool ==
  result # <<>> =>
    /\ result[1] = (value # Undefined /\ toLowerCase(value.chars) \in Tokens)
    /\ value \in {Undefined, Str(<<>>), Str(S_0), Str(S_false)}
         => result[1] = FALSE
    /\ (value # Undefined /\ value.chars \in Padded \ Tokens)
         => result[1] = FALSE

\* a mixed-case spelling of a token was accepted
C5_Witness ==
  /\ value = Str(<<"T", "r", "U", "e">>)
  /\ result = <<TRUE>>


\* --------------------------------------------------- virtualConfigModule
Null == [type |-> "null"]
virtualModuleId == <<"a", "u", "t", "h", ":", "c", "o", "n", "f", "i", "g">>
resolvedId == <<NUL>> \o virtualModuleId
ErrPrefix ==
  <<"[", "a", "s", "t", "r", "o", "-", "a", "u", "t", "h", "]", " ", "C", "a",
    "n", "n", "o", "t", " ", "r", "e", "s", "o", "l", "v", "e", " ">>
ExportPrefix ==
  <<"e", "x", "p", "o", "r", "t", " ", "{", " ", "d", "e", "f", "a", "u", "l",
    "t", " ", "a", "s", " ", "d", "e", "f", "a", "u", "l", "t", " ", "}", " ",
    "f", "r", "o", "m", " ">>

\* the closure of the returned plugin; configFile defaults to './auth.config'
virtualConfigModule(configFileArg) ==
  [name |-> "astro-auth-config",
   configFile |-> IF configFileArg = Undefined THEN DefaultConfigFile
                                               ELSE configFileArg.chars]

resolveId_loose(id) ==
  IF Len(id.chars) >= Len(virtualModuleId)
       /\ SubSeq(id.chars, Len(id.chars) - Len(virtualModuleId) + 1,
                 Len(id.chars)) = virtualModuleId
    THEN Str(resolvedId) ELSE Undefined

\* resolveId: (id) => { if (id === virtualModuleId) return resolvedId }
resolveId(id) ==
  IF id = Str(virtualModuleId) THEN Str(resolvedId) ELSE Undefined

\* JSON.stringify of a string: quoted, with ", \ and control characters escaped
EscapeChar(ch) ==
  CASE ch = "\"" -> <<"\\", "\"">>
    [] ch = "\\" -> <<"\\", "\\">>
    [] ch = "\n" -> <<"\\", "n">>
    [] ch = NUL -> <<"\\", "u", "0", "0", "0", "0">>
    [] OTHER -> <<ch>>

RECURSIVE Escape(_)
Escape(s) == IF s = <<>> THEN <<>> ELSE EscapeChar(Head(s)) \o Escape(Tail(s))

JSONstringify(v) == <<"\"">> \o Escape(v.chars) \o <<"\"">>

loadSource_unresolved(configFile, res) ==
  Str(ExportPrefix \o JSONstringify(Str(configFile)) \o <<";">>)

\* `export { default as default } from ${JSON.stringify(resolved.id)};`
loadSource(configFile, res) ==
  Str(ExportPrefix \o JSONstringify(res.id) \o <<";">>)

\* new Error(`[astro-auth] Cannot resolve ${configFile}`)
loadError(configFile) == [type |-> "Error", message |-> ErrPrefix \o configFile]

\* the ids the build tool asks about, and the answers of its resolver
ModuleIds ==
  {Str(virtualModuleId), Str(resolvedId), Str(S_some_other),
   Str(DefaultConfigFile), Str(<<>>), Str(virtualModuleId \o <<"x">>)}
ResolveOutcomes ==
  {Null} \cup {[id |-> Str(x)] : x \in {R_posix, R_win, R_quote}}

InitPlugin ==
  /\ plugin \in {virtualConfigModule(cf) :
                   cf \in {Undefined, Str(S_custom_file), Str(R_win)}}
  /\ resolveIdCall = Undefined
  /\ loadState = "idle"
  /\ loadId = Undefined
  /\ resolved = Undefined
  /\ loadRet = Undefined
  /\ resolveCalls = <<>>
  /\ mergeIdle
  /\ parseIdle
  /\ serverIdle

\* a call of the resolveId hook
ResolveId(id) ==
  /\ resolveIdCall' = [id |-> id, ret |-> resolveId(id)]
  /\ UNCHANGED <<plugin, loadState, loadId, resolved, loadRet, resolveCalls>>
  /\ UNCHANGED <<mergeVars, parseVars, serverVars>>

\* a call of the load hook, up to its return or to the await of this.resolve
Load(id) ==
  /\ loadState # "pending"
  /\ loadId' = id
  /\ resolved' = Undefined
  /\ loadRet' = Undefined
  /\ IF id = Str(resolvedId)
       THEN /\ Len(resolveCalls) < MaxLoads
            /\ resolveCalls' = Append(resolveCalls, plugin.configFile)
            /\ loadState' = "pending"
       ELSE /\ loadState' = "fulfilled"
            /\ UNCHANGED resolveCalls
  /\ UNCHANGED <<plugin, resolveIdCall, mergeVars, parseVars, serverVars>>

\* this.resolve(configFile) settled with res; load throws or returns
LoadResume(res) ==
  /\ loadState = "pending"
  /\ resolved' = res
  /\ IF res = Null
       THEN /\ loadState' = "rejected"
            /\ loadRet' = loadError(plugin.configFile)
       ELSE /\ loadState' = "fulfilled"
            /\ loadRet' = loadSource(plugin.configFile, res)
  /\ UNCHANGED <<plugin, resolveIdCall, loadId, resolveCalls>>
  /\ UNCHANGED <<mergeVars, parseVars, serverVars>>

NextPlugin ==
  \/ \E id \in ModuleIds : ResolveId(id)
  \/ \E id \in ModuleIds : Load(id)
  \/ \E res \in ResolveOutcomes : LoadResume(res)

SpecPlugin == InitPlugin /\ [][NextPlugin]_vars

\* the two ids as the property spells them
Marker == <<NUL, "a", "u", "t", "h", ":", "c", "o", "n", "f", "i", "g">>
AuthConfigId == <<"a", "u", "t", "h", ":", "c", "o", "n", "f", "i", "g">>

RECURSIVE ReadBody(_)
ReadBody(s) ==
  IF s = <<>> THEN [ok |-> TRUE, chars |-> <<>>]
  ELSE IF Head(s) = "\"" THEN [ok |-> FALSE, chars |-> <<>>]
  ELSE IF Head(s) = "\\"
    THEN IF Len(s) < 2 THEN [ok |-> FALSE, chars |-> <<>>]
         ELSE LET rest == ReadBody(SubSeq(s, 3, Len(s)))
                  ch == IF s[2] = "n" THEN "\n" ELSE s[2]
              IN [ok |-> rest.ok, chars |-> <<ch>> \o rest.chars]
    ELSE LET rest == ReadBody(Tail(s))
         IN [ok |-> rest.ok, chars |-> <<Head(s)>> \o rest.chars]

\* text is `export { default as default } from "<module>";` for this module
ReExportsDefaultOf(text, module) ==
  LET n == Len(ExportPrefix)
  IN /\ Len(text) >= n + 3
     /\ SubSeq(text, 1, n) = ExportPrefix
     /\ text[n + 1] = "\""
     /\ text[Len(text) - 1] = "\""
     /\ text[Len(text)] = ";"
     /\ LET body == ReadBody(SubSeq(text, n + 2, Len(text) - 2))
        IN body.ok /\ body.chars = module

P_providers ==
  <<"/", "a", "p", "i", "/", "a", "u", "t", "h", "/", "p", "r", "o", "v", "i",
    "d", "e", "r", "s">>
P_custom ==
  <<"/", "c", "u", "s", "t", "o", "m", "-", "a", "u", "t", "h", "/", "p", "r",
    "o", "v", "i", "d", "e", "r", "s">>
P_otherpath == <<"/", "o", "t", "h", "e", "r", "/", "p", "a", "t", "h">>
P_api == <<"/", "a", "p", "i">>
Paths == {P_providers, P_custom, P_otherpath, P_api}
Methods == {"GET", "POST"}

\* what the authentication library may answer
LibResponses ==
  {[type |-> "Response", status |-> 200], [type |-> "Response", status |-> 302]}

\* path.startsWith(p)
StartsWith(path, p) == Len(p) <= Len(path) /\ SubSeq(path, 1, Len(p)) = p

ServerConfigs ==
  { c \in Configs : Get(c, "secret") = Str(S_my_secret)
                    /\ Get(c, "trustHost") = Bool(TRUE) }

InitServer ==
  /\ importMetaEnv \in {Undefined, MetaEnv}
  /\ envOverride = Undefined
  /\ heap \in {<<c>> : c \in ServerConfigs}
  /\ arg = 0
  /\ ret = 0
  /\ serverIdle
  /\ parseIdle
  /\ pluginIdle

\* AstroAuth(config): normalizes the config and builds GET and POST over it
AstroAuth(ref) ==
  /\ handlers = 0
  /\ heap' = Append(heap, defineConfig(heap[ref], Undefined))
  /\ arg' = ref
  /\ ret' = Len(heap) + 1
  /\ handlers' = Len(heap) + 1
  /\ UNCHANGED <<importMetaEnv, envOverride, request, response, authCalls>>
  /\ UNCHANGED <<parseVars, pluginVars>>

\* GET or POST given a request for path
Handle(method, path) ==
  /\ handlers # 0
  /\ request' = [method |-> method, path |-> path]
  /\ IF StartsWith(path, heap[handlers].basePath.chars)
       THEN /\ Len(authCalls) < MaxRequests
            /\ \E r \in LibResponses :
                 /\ authCalls' = Append(authCalls,
                      [request |-> request', config |-> handlers, returned |-> r])
                 /\ response' = r
       ELSE /\ response' = Undefined
            /\ UNCHANGED authCalls
  /\ UNCHANGED <<handlers, mergeVars, parseVars, pluginVars>>

NextServer ==
  \/ AstroAuth(1)
  \/ \E method \in Methods : \E path \in Paths : Handle(method, path)

SpecServer == InitServer /\ [][NextServer]_vars

\* the prefix the caller's config resolves to
ResolvedPrefix ==
  IF Supplied(heap[1], "prefix") THEN heap[1].prefix.chars ELSE DefaultPrefix

\* C3: GET and POST alike work on the config normalized once, when the
\* handlers were built: a request whose path does not begin with its basePath
\* gets undefined and the library is not called; a request whose path does is
\* handed to the library with that config, and the library's Response is
\* what the handler returns.
C3_Handlers ==
  /\ [](handlers # 0 =>
          /\ handlers = 2
          /\ heap[handlers].basePath = Str(ResolvedPrefix)
          /\ heap[handlers].prefix = Str(ResolvedPrefix))
  /\ [](request # Undefined =>
          IF StartsWith(request.path, ResolvedPrefix)
            THEN /\ authCalls # <<>>
                 /\ authCalls[Len(authCalls)].request = request
                 /\ authCalls[Len(authCalls)].config = handlers
                 /\ response = authCalls[Len(authCalls)].returned
                 /\ response \in LibResponses
            ELSE response = Undefined)
  /\ [][ handlers # 0 =>
           /\ handlers' = handlers
           /\ heap' = heap
           /\ ~StartsWith(request'.path, ResolvedPrefix) => authCalls' = authCalls
           /\ Len(authCalls') <= Len(authCalls) + 1 ]_vars

\* a POST under the prefix was delegated although the caller's config named
\* another basePath
C3_Witness ==
  /\ handlers # 0
  /\ Get(heap[1], "prefix") = Str(S_custom_auth)
  /\ Get(heap[1], "basePath") = Str(S_other)
  /\ request = [method |-> "POST", path |-> P_custom]
  /\ response \in LibResponses
  /\ Len(authCalls) = 1


\* ------------------------------------------- platform markers, full configs
\* a truthy JavaScript string: any non-empty one
Truthy(v) == v # Undefined /\ v.type = "string" /\ v.chars # <<>>

\* C11 (as stated): with no trustHost in the config, any non-empty VERCEL or
\* CF_PAGES makes the merged trustHost true, also under NODE_ENV='production'
\* with AUTH_TRUST_HOST unset.
C11_PlatformMarkerTrusts ==
  (CalledWithEnv /\ ~Supplied(cfgIn, "trustHost")
     /\ (Truthy(envOverride.VERCEL) \/ Truthy(envOverride.CF_PAGES)))
    => cfgOut.trustHost = Bool(TRUE)

\* C12 (as stated): a config that provides providers, secret, prefix and a
\* basePath equal to the prefix comes back unchanged: same keys, same values.
C12_FullConfigUnchanged ==
  (Called /\ "providers" \in DOMAIN cfgIn
     /\ Supplied(cfgIn, "secret") /\ Supplied(cfgIn, "prefix")
     /\ Supplied(cfgIn, "basePath") /\ cfgIn.basePath = cfgIn.prefix)
    => (DOMAIN cfgOut = DOMAIN cfgIn /\ cfgOut = cfgIn)

====
